---- MODULE Spec2Model ----
(***************************************************************************)
(* Claude Code Radar backend: the event store (backend/events.py over the  *)
(* SQLite table of backend/database.py), the ingestion endpoint and the    *)
(* SSE broadcast of backend/main.py.                                       *)
(*                                                                         *)
(* Scheduling.  receive_event and event_generator are coroutines of one    *)
(* asyncio event loop: exactly one of them runs at a time and it keeps the *)
(* loop until it suspends in an await that really waits.  save_event is a  *)
(* plain blocking call, and `await queue.put(x)` on an asyncio.Queue waits *)
(* only while the queue is full.  list_events, active_sessions and         *)
(* tool_statistics are plain `def` endpoints: they run on worker threads,  *)
(* at any time, and each SQL statement reads the table as committed then.  *)
(*                                                                         *)
(* install_hooks.py is a program of its own, run from a shell; the merge of *)
(* settings in its main is modelled beside the backend, which it does not  *)
(* call.                                                                   *)
(***************************************************************************)
EXTENDS Integers, Sequences, FiniteSets, TLC

\* ------------------------------------------------------------------ bounds
\* POST /events calls handled in one run
MaxCalls == 3
\* of them, the calls answered with an error
MaxErrors == 1
\* GET /stream connections opened in one run
MaxConns == 2

\* ------------------------------------------------------------------ values
\* A JSON / Python / SQLite value: t is its type, n an integer's value, s a
\* string's value, q the items of a dict (<<key, value>> pairs, in order) or
\* the characters of a JSON text.
Val(t, n, s, q) == [t |-> t, n |-> n, s |-> s, q |-> q]
\* a key that the request body does not carry
Absent == Val("absent", 0, "", << >>)
\* JSON null, Python None, SQL NULL
None == Val("null", 0, "", << >>)
PyInt(n) == Val("int", n, "", << >>)
PyStr(s) == Val("str", 0, s, << >>)
PyDict(items) == Val("dict", 0, "", items)
Text(chars) == Val("text", 0, "", chars)

\* Python truth value of x (`if x:`)
Truthy(x) ==
    CASE x.t = "null" -> FALSE
      [] x.t = "int" -> x.n # 0
      [] x.t = "str" -> x.s # ""
      [] x.t = "dict" -> Len(x.q) > 0
      [] x.t = "text" -> Len(x.q) > 0
      [] OTHER -> FALSE

\* ------------------------------------------------------------------ json
\* The characters json.dumps writes for the items of a dict whose keys and
\* values are strings: "k": "v", "k2": "v2" (a string's content is one
\* character of the model, between its two quote characters).
RECURSIVE dumps_items(_)
dumps_items(items) ==
    IF items = << >> THEN << >>
    ELSE LET k == items[1][1]
             v == items[1][2]
             rest == Tail(items)
         IN  <<"\"", k, "\"", ":", "\"", v, "\"">>
                 \o (IF rest = << >> THEN << >> ELSE <<",">> \o dumps_items(rest))

\* json.dumps(x) for x a dict or None
json_dumps(x) ==
    IF x.t = "dict" THEN Text(<<"{">> \o dumps_items(x.q) \o <<"}">>)
    ELSE Text(<<"null">>)

\* The items json.loads reads from position i of the characters of an object
RECURSIVE loads_items(_, _)
loads_items(chars, i) ==
    IF chars[i] = "}" THEN << >>
    ELSE IF chars[i] = "," THEN loads_items(chars, i + 1)
    ELSE <<  <<chars[i + 1], chars[i + 5]>>  >> \o loads_items(chars, i + 7)

\* json.loads(x) for x the text of an object or of null
json_loads(x) ==
    IF x.q[1] = "{" THEN PyDict(loads_items(x.q, 2)) ELSE None

\* ------------------------------------------------------------------ Event
\* The keys of the request body, and the fields of the Event model
Fields == {"timestamp", "session_id", "hook_event_type", "source_app",
           "model_name", "tool_name", "payload", "summary"}

\* int(s) for the strings of digits among the model's inputs; pydantic's
\* default (lax) mode hands a string to an int field through this parse
IsIntStr(s) == s \in {"10", "20"}
IntOfStr(s) == IF s = "10" THEN 10 ELSE 20

\* `timestamp: int`: an integer, or a string of digits, which is converted
IntFieldOk(v) == v.t = "int" \/ (v.t = "str" /\ IsIntStr(v.s))
IntField(v) == IF v.t = "str" THEN PyInt(IntOfStr(v.s)) ELSE v

\* `session_id: str`, `hook_event_type: str`: a string, nothing else
StrFieldOk(v) == v.t = "str"

\* `Optional[str] = None`: a string, null, or no key at all
OptStrFieldOk(v) == v.t \in {"str", "null", "absent"}
\* `Optional[dict] = None`: an object, null, or no key at all
OptDictFieldOk(v) == v.t \in {"dict", "null", "absent"}
\* the default of an optional field
OptField(v) == IF v.t = "absent" THEN None ELSE v

\* Does the request body pass the validation of Event(BaseModel)?
EventValid(body) ==
    /\ IntFieldOk(body.timestamp)
    /\ StrFieldOk(body.session_id)
    /\ StrFieldOk(body.hook_event_type)
    /\ OptStrFieldOk(body.source_app)
    /\ OptStrFieldOk(body.model_name)
    /\ OptStrFieldOk(body.tool_name)
    /\ OptDictFieldOk(body.payload)
    /\ OptStrFieldOk(body.summary)

\* The Event instance built from a valid request body
Event(body) ==
    [timestamp |-> IntField(body.timestamp),
     session_id |-> body.session_id,
     hook_event_type |-> body.hook_event_type,
     source_app |-> OptField(body.source_app),
     model_name |-> OptField(body.model_name),
     tool_name |-> OptField(body.tool_name),
     payload |-> OptField(body.payload),
     summary |-> OptField(body.summary)]

\* event.model_dump() alone: the id is not set
EventData_noid(event, event_id) ==
    [f \in Fields \cup {"id"} |-> IF f = "id" THEN None ELSE event[f]]

\* event.model_dump() with event_data['id'] = event_id
EventData(event, event_id) ==
    [f \in Fields \cup {"id"} |-> IF f = "id" THEN PyInt(event_id) ELSE event[f]]

\* ------------------------------------------------------------------ state
VARIABLES
    events,           \* the rows of table `events`, in rowid order
    sqlite_sequence,  \* the largest rowid AUTOINCREMENT has ever given out
    sse_clients,      \* main.sse_clients: the list of subscriber queues
    queues,           \* the items of each connection's asyncio.Queue
    gen,              \* where each connection's event_generator stands
    yielded,          \* the event_data each open connection has been sent so far
    handler,          \* the receive_event call that holds the event loop
    responses,        \* the responses of POST /events, in the order sent
    result,           \* the response of the GET /api/events call that just returned
    view,             \* the aggregate call (active sessions, tool statistics) in
                      \* flight or last answered
    install           \* a run of install_hooks.py: its position, the target's
                      \* settings.json and the locals of main

vars == <<events, sqlite_sequence, sse_clients, queues, gen, yielded, handler,
          responses, result, view, install>>

Conns == 1 .. MaxConns

\* ------------------------------------------------------------------ store
\* an Event with every field None: the handler's slot when no call runs
NoEvent == [f \in Fields |-> None]

\* The values save_event binds to the INSERT, with the rowid SQLite assigns
Row(id, event) ==
    [id |-> PyInt(id),
     timestamp |-> event.timestamp,
     session_id |-> event.session_id,
     hook_event_type |-> event.hook_event_type,
     source_app |-> event.source_app,
     model_name |-> event.model_name,
     tool_name |-> event.tool_name,
     payload |-> IF Truthy(event.payload) THEN json_dumps(event.payload) ELSE None,
     summary |-> event.summary]

\* timestamp, session_id and hook_event_type are declared NOT NULL
NotNullOk(row) ==
    /\ row.timestamp # None
    /\ row.session_id # None
    /\ row.hook_event_type # None

\* (a rowid that is not advanced past the last one given out)
lastrowid_stale(seq) == IF seq = 0 THEN 1 ELSE seq
\* INTEGER PRIMARY KEY AUTOINCREMENT: one more than the largest rowid ever used
lastrowid(seq) == seq + 1

\* (a save_event that returns without its commit: the row is lost at close)
commit_missing(table, row) == table
\* (INSERT OR REPLACE that lands on the newest row)
commit_replace(table, row) ==
    IF table = << >> THEN <<row>> ELSE [table EXCEPT ![Len(table)] = row]
\* INSERT and conn.commit(): the row is in the table
commit(table, row) == Append(table, row)
\* (a connection in autocommit mode: the row stays although the call raised)
close_autocommit(table, row) == Append(table, row)
\* get_db closes the connection of a save_event that raised before its
\* commit returned: the open transaction is rolled back
close_uncommitted(table, row) == table

\* asyncio.Queue(): maxsize 0, a queue that is never full
maxsize == 0
\* (a queue created with room for one item)
full_bounded(q) == Len(q) >= 1
full(q) == maxsize > 0 /\ Len(q) >= maxsize
\* (an item put while another still waits is dropped)
put_nowait_drop(q, item) == IF q = << >> THEN <<item>> ELSE q
\* (a LIFO queue: the newest item is handed out first)
put_nowait_lifo(q, item) == <<item>> \o q
\* (a put that appends the item twice)
put_nowait_twice(q, item) == q \o <<item, item>>
\* queue.put_nowait(item) of a FIFO queue
put_nowait(q, item) == Append(q, item)
\* (a put that fails on the queue of a connection that has ended)
put_raises_closed(c) == gen[c] = "closed"
\* Does `await queue.put(item)` raise on the queue of connection c?  Never:
\* asyncio.Queue.put waits while the queue is full and then appends, and the
\* queue's reader going away does not touch the queue.
put_raises(c) == FALSE
\* (a queue filled with the stored history)
NewQueue_replay == [i \in 1 .. Len(events) |-> events[i]]
\* the queue event_generator creates
NewQueue == << >>

\* list.remove(x): the list without its first x
RECURSIVE remove(_, _)
remove(list, x) ==
    IF list = << >> THEN << >>
    ELSE IF Head(list) = x THEN Tail(list)
    ELSE <<Head(list)>> \o remove(Tail(list), x)

\* ------------------------------------------------------------------ inputs
Body(ts, sid, ty, app, model, tool, payload, summary) ==
    [timestamp |-> ts, session_id |-> sid, hook_event_type |-> ty,
     source_app |-> app, model_name |-> model, tool_name |-> tool,
     payload |-> payload, summary |-> summary]

\* producer clocks: 20 is later than 10, and bodies arrive in any order
Timestamps == {PyInt(10), PyInt(20)}

\* every optional field set, a one-key payload
FullBody(ts) ==
    Body(ts, PyStr("s1"), PyStr("PostToolUse"), PyStr("app"), PyStr("opus"),
         PyStr("Bash"), PyDict(<< <<"k", "v">> >>), PyStr("sum"))
\* no optional key at all
BareBody(ts) ==
    Body(ts, PyStr("s2"), PyStr("SessionStart"), Absent, Absent, Absent, Absent,
         Absent)
\* an empty payload document, an empty summary, null and missing keys
EmptyBody(ts) ==
    Body(ts, PyStr("s1"), PyStr("PostToolUseFailure"), None, PyStr("sonnet"),
         Absent, PyDict(<< >>), PyStr(""))

\* bodies whose required fields are integers and strings
TypedBodies ==
    {FullBody(ts) : ts \in Timestamps} \cup {BareBody(ts) : ts \in Timestamps}
        \cup {EmptyBody(ts) : ts \in Timestamps}

\* values that are not of a required field's declared type: the key missing,
\* null, or another JSON type (for timestamp also strings, of digits or not)
OffType(f) ==
    IF f = "timestamp" THEN {Absent, None, PyStr("abc"), PyStr("20"), PyDict(<< >>)}
    ELSE {Absent, None, PyInt(7), PyDict(<< >>)}

\* bodies with one required field missing, null or of another JSON type
IllTypedBodies ==
    {[FullBody(PyInt(10)) EXCEPT ![f] = v] :
        <<f, v>> \in {fv \in {"timestamp", "session_id", "hook_event_type"}
                                \X {Absent, None, PyStr("abc"), PyStr("20"),
                                    PyInt(7), PyDict(<< >>)} :
                         fv[2] \in OffType(fv[1])}}

\* bodies whose session_id or hook_event_type is the empty string
EmptyIdBodies ==
    {[FullBody(PyInt(10)) EXCEPT !.session_id = PyStr("")],
     [FullBody(PyInt(10)) EXCEPT !.hook_event_type = PyStr("")]}

\* the request bodies of the store's producers
Bodies == TypedBodies \cup IllTypedBodies \cup EmptyIdBodies
\* the request body of the producers of the fair specifications, whose
\* calls all pass validation and store their event
LiveBodies == {FullBody(PyInt(10))}
\* the request bodies of the producers that run beside stream subscribers:
\* one that is accepted and one that is rejected (the fan-out does not read
\* the event, which the id alone tells from the others)
StreamBodies ==
    {FullBody(PyInt(10)), [FullBody(PyInt(10)) EXCEPT !.session_id = Absent]}

\* ------------------------------------------------------------------ ingest
\* no response of GET /api/events has just been sent
NoResult == [called |-> FALSE, limit |-> 0, session_id |-> None,
             event_type |-> None, events |-> << >>, count |-> 0]

Idle == [pc |-> "idle", event |-> NoEvent, event_id |-> 0, i |-> 0]

\* The event loop is free for another coroutine when no receive_event call
\* runs, or when the running one waits in queue.put for a full queue.
LoopFree ==
    \/ handler.pc = "idle"
    \/ /\ handler.pc = "broadcast"
       /\ handler.i <= Len(sse_clients)
       /\ full(queues[sse_clients[handler.i]])

\* the number of error responses sent so far
Errors == Len(SelectSeq(responses, LAMBDA r : r.status # 200))

Respond(status, event_id, event) ==
    responses' = Append(responses, [status |-> status, event_id |-> event_id,
                                    event |-> event])

\* POST /events with a body the Event model rejects: FastAPI answers 422
\* and receive_event is not called.
PostInvalid(body) ==
    /\ handler.pc = "idle"
    /\ Len(responses) < MaxCalls
    /\ Errors < MaxErrors
    /\ ~EventValid(body)
    /\ Respond(422, 0, NoEvent)
    /\ result' = NoResult
    /\ UNCHANGED <<install, view, events, sqlite_sequence, sse_clients, queues, gen, yielded,
                   handler>>

\* POST /events with a valid body: receive_event(event) starts.
receive_event(body) ==
    /\ handler.pc = "idle"
    /\ Len(responses) < MaxCalls
    /\ EventValid(body)
    /\ handler' = [pc |-> "save", event |-> Event(body), event_id |-> 0, i |-> 0]
    /\ result' = NoResult
    /\ UNCHANGED <<install, view, events, sqlite_sequence, sse_clients, queues, gen, yielded,
                   responses>>

\* save_event: INSERT, commit, return cursor.lastrowid.
save_event ==
    /\ handler.pc = "save"
    /\ LET id == lastrowid(sqlite_sequence)
           row == Row(id, handler.event)
       IN  /\ NotNullOk(row)
           /\ events' = commit(events, row)
           /\ sqlite_sequence' = id
           /\ handler' = [handler EXCEPT !.pc = "broadcast", !.event_id = id, !.i = 1]
    /\ result' = NoResult
    /\ UNCHANGED <<install, view, sse_clients, queues, gen, yielded, responses>>

\* save_event raises (the database is locked or cannot be written, a NOT
\* NULL column is None): nothing is committed, and the except clause of
\* receive_event answers 500.
save_event_raises ==
    /\ handler.pc = "save"
    /\ Errors < MaxErrors
    /\ events' = close_uncommitted(events, Row(lastrowid(sqlite_sequence), handler.event))
    /\ handler' = Idle
    /\ Respond(500, 0, NoEvent)
    /\ result' = NoResult
    /\ UNCHANGED <<install, view, sqlite_sequence, sse_clients, queues, gen, yielded>>

\* One turn of `for queue in sse_clients: await queue.put(event_data)`;
\* put waits while the queue is full.
\* An exception of the put would leave the loop for the except clause of
\* receive_event, which answers 500.
queue_put ==
    /\ handler.pc = "broadcast"
    /\ handler.i <= Len(sse_clients)
    /\ LET c == sse_clients[handler.i]
       IN  /\ ~full(queues[c])
           /\ IF put_raises(c)
              THEN /\ Respond(500, 0, NoEvent)
                   /\ handler' = Idle
                   /\ UNCHANGED queues
              ELSE /\ queues' = [queues EXCEPT
                          ![c] = put_nowait(@, EventData(handler.event, handler.event_id))]
                   /\ handler' = [handler EXCEPT !.i = @ + 1]
                   /\ UNCHANGED responses
    /\ result' = NoResult
    /\ UNCHANGED <<install, view, events, sqlite_sequence, sse_clients, gen, yielded>>

\* return {"status": "ok", "event_id": event_id}
receive_event_returns ==
    /\ handler.pc = "broadcast"
    /\ handler.i > Len(sse_clients)
    /\ Respond(200, handler.event_id, handler.event)
    /\ handler' = Idle
    /\ result' = NoResult
    /\ UNCHANGED <<install, view, events, sqlite_sequence, sse_clients, queues, gen, yielded>>

\* ------------------------------------------------------------------ stream
\* connections are numbered in the order they are opened
NextConn(c) == gen[c] = "new" /\ \A d \in Conns : d < c => gen[d] # "new"

\* GET /stream: event_generator starts, creates its queue, appends it to
\* sse_clients and waits in queue.get().
event_generator(c) ==
    /\ LoopFree
    /\ NextConn(c)
    /\ queues' = [queues EXCEPT ![c] = NewQueue]
    /\ sse_clients' = Append(sse_clients, c)
    /\ gen' = [gen EXCEPT ![c] = "get"]
    /\ result' = NoResult
    /\ UNCHANGED <<install, view, events, sqlite_sequence, yielded, handler, responses>>

\* event_data = await queue.get(), then the yield of its SSE frame: the
\* generator is suspended at the yield while the response sends the frame.
queue_get(c) ==
    /\ LoopFree
    /\ gen[c] = "get"
    /\ queues[c] # << >>
    /\ yielded' = [yielded EXCEPT ![c] = Append(@, Head(queues[c]))]
    /\ queues' = [queues EXCEPT ![c] = Tail(@)]
    /\ gen' = [gen EXCEPT ![c] = "yield"]
    /\ result' = NoResult
    /\ UNCHANGED <<install, view, events, sqlite_sequence, sse_clients, handler, responses>>

\* the response asks for the next frame: back to `while True`, queue.get()
resume(c) ==
    /\ LoopFree
    /\ gen[c] = "yield"
    /\ gen' = [gen EXCEPT ![c] = "get"]
    /\ result' = NoResult
    /\ UNCHANGED <<install, view, events, sqlite_sequence, sse_clients, queues, yielded, handler,
                   responses>>

\* The client disconnects while the generator waits in queue.get():
\* CancelledError is raised there, the handler removes the queue from
\* sse_clients, and the queue, now unreferenced, is released with its items.
cancelled(c) ==
    /\ LoopFree
    /\ gen[c] = "get"
    /\ sse_clients' = remove(sse_clients, c)
    /\ gen' = [gen EXCEPT ![c] = "closed"]
    /\ queues' = [queues EXCEPT ![c] = << >>]
    /\ yielded' = [yielded EXCEPT ![c] = << >>]
    /\ result' = NoResult
    /\ UNCHANGED <<install, view, events, sqlite_sequence, handler, responses>>

\* The client disconnects while the generator is suspended at the yield:
\* the generator is closed there (GeneratorExit), which `except
\* asyncio.CancelledError` does not catch, so nothing is removed.
closed_at_yield(c) ==
    /\ LoopFree
    /\ gen[c] = "yield"
    /\ gen' = [gen EXCEPT ![c] = "closed"]
    /\ yielded' = [yielded EXCEPT ![c] = << >>]
    /\ result' = NoResult
    /\ UNCHANGED <<install, view, events, sqlite_sequence, sse_clients, queues, handler, responses>>

\* ------------------------------------------------------------------ query
\* largest `limit` a list-events call is given
MaxLimit == 3

\* WHERE 1=1 [AND session_id = ?] [AND hook_event_type = ?]: a filter is
\* added only when its argument is truthy
Where(row, session_id, event_type) ==
    /\ Truthy(session_id) => row.session_id = session_id
    /\ Truthy(event_type) => row.hook_event_type = event_type

\* the sort key of get_events: ORDER BY timestamp DESC
OrderKey(row) == row.timestamp.n

\* The orders ORDER BY <key> DESC may return the rows in: every arrangement
\* with the keys descending (SQL leaves the order of equal keys open).
OrderByDesc(rows) ==
    LET n == Len(rows)
        perms == {p \in [1 .. n -> 1 .. n] : \A i, j \in 1 .. n : i # j => p[i] # p[j]}
    IN  {[i \in 1 .. n |-> rows[p[i]]] : p \in
            {q \in perms : \A i \in 1 .. n - 1 :
                OrderKey(rows[q[i]]) >= OrderKey(rows[q[i + 1]])}}

\* LIMIT ?: the first `limit` rows; a negative limit is no limit
Limit(rows, limit) ==
    IF limit < 0 \/ limit >= Len(rows) THEN rows ELSE SubSeq(rows, 1, limit)

\* dict(row), with the payload column parsed when it is truthy
RowDict(row) ==
    [row EXCEPT !.payload = IF Truthy(row.payload) THEN json_loads(row.payload)
                            ELSE row.payload]

\* The lists get_events(limit, session_id, event_type) may return
get_events(limit, session_id, event_type) ==
    LET matching == SelectSeq(events, LAMBDA row : Where(row, session_id, event_type))
    IN  {[i \in 1 .. Len(Limit(rows, limit)) |-> RowDict(rows[i])] :
            rows \in OrderByDesc(matching)}

\* the session_id and event_type arguments of the model's queries: the
\* parameter left out, a value that stored events carry, and the empty value
\* of `?session_id=` and `?event_type=`
SessionArgs == {None, PyStr("s1"), PyStr("s2"), PyStr("")}
TypeArgs == {None, PyStr("PostToolUse"), PyStr("")}

\* GET /api/events: a worker thread runs get_events on the committed table.
\* (The response is kept for one step.  A call that follows another call
\* directly reads the table the first one read, so a call starts from the
\* states without a response only: every table and response is reached.)
list_events(limit, session_id, event_type) ==
    /\ result = NoResult
    /\ \E evs \in get_events(limit, session_id, event_type) :
          result' = [called |-> TRUE, limit |-> limit, session_id |-> session_id,
                     event_type |-> event_type, events |-> evs, count |-> Len(evs)]
    /\ UNCHANGED <<install, view, events, sqlite_sequence, sse_clients, queues, gen, yielded,
                   handler, responses>>

\* ------------------------------------------------------------------ views
\* time.time() at the aggregate calls, in milliseconds: 100 minutes
Clock == {6000000}
\* the `minutes` and `hours` arguments of the aggregate calls
WindowMinutes == {60, 120}
WindowHours == {1, 2}

\* a hook event as the producers of test_events.py build it
ViewBody(ts, sid, ty, model, tool) ==
    Body(PyInt(ts), PyStr(sid), PyStr(ty), Absent, model, tool, Absent, Absent)

\* Events of two sessions, stamped (against the clock above) 30 minutes ago,
\* 90 minutes ago, exactly 60 minutes ago, 10 minutes ago and, by a producer
\* whose clock runs ahead, 20 minutes from now.
ViewBodies ==
    {ViewBody(4200000, "s1", "PostToolUse", PyStr("opus"), PyStr("Bash")),
     ViewBody(600000, "s1", "PostToolUseFailure", PyStr("sonnet"), PyStr("Bash")),
     ViewBody(4200000, "s2", "PostToolUse", PyStr("sonnet"), PyStr("Read")),
     ViewBody(2400000, "s2", "SessionStart", Absent, Absent),
     ViewBody(5400000, "s2", "PreToolUse", PyStr("sonnet"), PyStr("Bash")),
     ViewBody(7200000, "s1", "PostToolUseFailure", PyStr("opus"), PyStr("Read"))}

\* cutoff = int((time.time() - minutes * 60) * 1000)
cutoff_minutes(now, minutes) == now - minutes * 60 * 1000
\* cutoff = int((time.time() - hours * 3600) * 1000)
cutoff_hours(now, hours) == now - hours * 3600 * 1000

\* (an aggregate without GROUP BY: one group, also over no rows)
Groups_nogroup(keys) ==
    IF keys = << >> THEN {None} ELSE {keys[i] : i \in 1 .. Len(keys)}
\* GROUP BY: one group for each distinct key of the selected rows
Groups(keys) == {keys[i] : i \in 1 .. Len(keys)}

\* MAX(timestamp) of a group; NULL over no rows
SqlMax(rows) ==
    IF rows = << >> THEN None
    ELSE PyInt(CHOOSE m \in {rows[i].timestamp.n : i \in 1 .. Len(rows)} :
                   \A i \in 1 .. Len(rows) : rows[i].timestamp.n <= m)

\* ORDER BY <key> DESC over the rows of a grouped result: every arrangement
\* with the keys descending (SQL leaves the order of equal keys open)
SortedDesc(rowset, key) ==
    LET n == Cardinality(rowset)
    IN  {q \in [1 .. n -> rowset] :
            /\ \A i, j \in 1 .. n : i # j => q[i] # q[j]
            /\ \A i \in 1 .. n - 1 : q[i][key].n >= q[i + 1][key].n}

\* (SELECT model_name FROM events WHERE session_id = e.session_id
\*  ORDER BY timestamp DESC LIMIT 1): the model_name of a row of the session
\* with the largest timestamp, of any age; NULL when the session has no row
model_name_subquery(table, sid) ==
    LET rows == SelectSeq(table, LAMBDA r : r.session_id = sid)
    IN  IF rows = << >> THEN {None}
        ELSE {rows[i].model_name : i \in {j \in 1 .. Len(rows) :
                                             rows[j].timestamp = SqlMax(rows)}}

\* The lists get_active_sessions(minutes) may return when it reads `table`
\* at time `now`: one statement, which reads one state of the table.
get_active_sessions(table, now, minutes) ==
    LET rows == SelectSeq(table, LAMBDA r :
                    r.timestamp.n > cutoff_minutes(now, minutes))
        sids == Groups([i \in 1 .. Len(rows) |-> rows[i].session_id])
        group(sid) == SelectSeq(rows, LAMBDA r : r.session_id = sid)
        names == {table[i].model_name : i \in 1 .. Len(table)} \cup {None}
        picks == {m \in [sids -> names] :
                     \A sid \in sids : m[sid] \in model_name_subquery(table, sid)}
        rowset(m) == {[session_id |-> sid,
                       model_name |-> m[sid],
                       last_activity |-> SqlMax(group(sid)),
                       event_count |-> PyInt(Len(group(sid)))] : sid \in sids}
    IN  UNION {SortedDesc(rowset(m), "last_activity") : m \in picks}

\* The first statement of get_tool_stats: the lists it may return
select_tool_usage(table, cutoff) ==
    LET rows == SelectSeq(table, LAMBDA r :
                    r.timestamp.n > cutoff /\ r.tool_name # None)
        tools == Groups([i \in 1 .. Len(rows) |-> rows[i].tool_name])
        rowset == {[tool_name |-> t,
                    count |-> PyInt(Len(SelectSeq(rows, LAMBDA r : r.tool_name = t)))] :
                      t \in tools}
    IN  SortedDesc(rowset, "count")

\* CASE WHEN hook_event_type = 'PostToolUseFailure' THEN 'failure'
\* ELSE 'success' END
status(row) ==
    IF row.hook_event_type = PyStr("PostToolUseFailure") THEN PyStr("failure")
    ELSE PyStr("success")

\* The second statement of get_tool_stats, as the dict {status: count}
select_success_failure(table, cutoff) ==
    LET rows == SelectSeq(table, LAMBDA r :
                    /\ r.timestamp.n > cutoff
                    /\ r.hook_event_type \in {PyStr("PostToolUse"),
                                              PyStr("PostToolUseFailure")})
        statuses == Groups([i \in 1 .. Len(rows) |-> status(rows[i])])
    IN  [st \in statuses |-> PyInt(Len(SelectSeq(rows, LAMBDA r : status(r) = st)))]

\* no aggregate call has been made (n1 and n2 record how many rows the table
\* held when the call's first and second statement read it)
NoView == [op |-> "none", pc |-> "idle", now |-> 0, window |-> 0,
           sessions |-> << >>, count |-> 0, tool_usage |-> << >>,
           success_failure |-> << >>, n1 |-> 0, n2 |-> 0]

\* GET /api/sessions/active: a worker thread runs get_active_sessions on the
\* committed table and the response is sent.
active_sessions(now, minutes) ==
    /\ view.pc # "select2"
    /\ \E sessions \in get_active_sessions(events, now, minutes) :
          view' = [NoView EXCEPT !.op = "sessions", !.pc = "done", !.now = now,
                                 !.window = minutes, !.sessions = sessions,
                                 !.count = Len(sessions),
                                 !.n1 = Len(events), !.n2 = Len(events)]
    /\ result' = NoResult
    /\ UNCHANGED <<install, events, sqlite_sequence, sse_clients, queues, gen, yielded,
                   handler, responses>>

\* GET /api/tools/stats: a worker thread starts get_tool_stats, which takes
\* its cutoff and runs its first statement on the committed table.
get_tool_stats(now, hours) ==
    /\ view.pc # "select2"
    /\ \E tool_usage \in select_tool_usage(events, cutoff_hours(now, hours)) :
          view' = [NoView EXCEPT !.op = "stats", !.pc = "select2", !.now = now,
                                 !.window = hours, !.tool_usage = tool_usage,
                                 !.n1 = Len(events)]
    /\ result' = NoResult
    /\ UNCHANGED <<install, events, sqlite_sequence, sse_clients, queues, gen, yielded,
                   handler, responses>>

\* get_tool_stats runs its second statement, on the table as committed by
\* then, and tool_statistics returns the two results.
tool_statistics_returns ==
    /\ view.pc = "select2"
    /\ view' = [view EXCEPT
          !.pc = "done",
          !.success_failure =
              select_success_failure(events, cutoff_hours(view.now, view.window)),
          !.n2 = Len(events)]
    /\ result' = NoResult
    /\ UNCHANGED <<install, events, sqlite_sequence, sse_clients, queues, gen, yielded,
                   handler, responses>>

\* ------------------------------------------------------------------ installer
\* runs of install_hooks.py on one target repository
MaxRuns == 2

\* sep.join(words)
RECURSIVE join(_, _)
join(sep, words) ==
    IF words = << >> THEN ""
    ELSE IF Len(words) = 1 THEN words[1]
    ELSE words[1] \o sep \o join(sep, Tail(words))

\* dict.get(key, default)
get(dict, key, default) == IF key \in DOMAIN dict THEN dict[key] ELSE default

hook_configs ==
    [PreToolUse |-> [script_name |-> "pre_tool_use.py", hook_args |-> << >>],
     PostToolUse |-> [script_name |-> "post_tool_use.py", hook_args |-> << >>],
     PostToolUseFailure |->
         [script_name |-> "post_tool_use_failure.py", hook_args |-> << >>],
     PermissionRequest |->
         [script_name |-> "permission_request.py", hook_args |-> << >>],
     Notification |-> [script_name |-> "notification.py", hook_args |-> << >>],
     SubagentStart |-> [script_name |-> "subagent_start.py", hook_args |-> << >>],
     SubagentStop |-> [script_name |-> "subagent_stop.py", hook_args |-> << >>],
     Stop |-> [script_name |-> "stop.py", hook_args |-> <<"--chat">>],
     PreCompact |-> [script_name |-> "pre_compact.py", hook_args |-> << >>],
     UserPromptSubmit |->
         [script_name |-> "user_prompt_submit.py",
          hook_args |-> <<"--log-only", "--store-last-prompt", "--name-agent">>],
     SessionStart |-> [script_name |-> "session_start.py", hook_args |-> << >>],
     SessionEnd |-> [script_name |-> "session_end.py", hook_args |-> << >>]]

send_event_extras ==
    [PreToolUse |-> <<"--summarize">>,
     PostToolUse |-> <<"--summarize">>,
     PostToolUseFailure |-> <<"--summarize">>,
     PermissionRequest |-> <<"--summarize">>,
     Notification |-> <<"--summarize">>,
     Stop |-> <<"--add-chat">>,
     UserPromptSubmit |-> <<"--summarize">>]

\* the default of --backend-url
DefaultBackendUrl == "http://localhost:8000/events"

hook_cmd(event_type) ==
    LET script_name == hook_configs[event_type].script_name
        hook_args == hook_configs[event_type].hook_args
        cmd == "uv run $CLAUDE_PROJECT_DIR/.claude/hooks/" \o script_name
    IN  IF hook_args # << >> THEN cmd \o " " \o join(" ", hook_args) ELSE cmd

send_event_cmd(event_type, source_app, backend_url) ==
    LET cmd == "uv run $CLAUDE_PROJECT_DIR/.claude/hooks/send_event.py --source-app "
                   \o source_app \o " --event-type " \o event_type
        extra_args == get(send_event_extras, event_type, << >>)
        cmd2 == IF extra_args # << >> THEN cmd \o " " \o join(" ", extra_args) ELSE cmd
    IN  IF backend_url # DefaultBackendUrl
        THEN cmd2 \o " --server-url " \o backend_url
        ELSE cmd2

\* {'type': 'command', 'command': command}
Hook(command) == [type |-> "command", command |-> command]
\* A matcher group {'matcher': m, 'hooks': [...]}; has_hooks tells whether
\* the dict has the key 'hooks'.
Matcher(m, hooks) == [matcher |-> m, has_hooks |-> TRUE, hooks |-> hooks]
BareMatcher(m) == [matcher |-> m, has_hooks |-> FALSE, hooks |-> << >>]
\* The value of settings['hooks'] at one key; has tells whether the dict has
\* the key.
Entry(list) == [has |-> TRUE, list |-> list]
NoEntry == [has |-> FALSE, list |-> << >>]
\* 'statusLine' of a settings document, when it has one
StatusLine(command) ==
    [has |-> TRUE, type |-> "command", command |-> command, padding |-> 0]
NoStatusLine == [has |-> FALSE, type |-> "", command |-> "", padding |-> 0]

\* the event types of the CCR configuration
EventTypes == DOMAIN hook_configs
\* the keys of settings['hooks'] in the documents considered: the event types
\* and one that CCR does not configure
HookKeys == EventTypes \cup {"Custom"}

build_ccr_hooks_config(source_app, backend_url) ==
    [hooks |->
        [event_type \in EventTypes |->
            <<Matcher("", <<Hook(hook_cmd(event_type)),
                            Hook(send_event_cmd(event_type, source_app, backend_url))>>)>>],
     statusLine |->
        StatusLine("uv run $CLAUDE_PROJECT_DIR/.claude/status_lines/status_line_v6.py")]

\* A settings document: has_hooks tells whether it has the key 'hooks'.
Settings(statusLine, has_hooks, hooks) ==
    [statusLine |-> statusLine, has_hooks |-> has_hooks, hooks |-> hooks]
\* {}: what load_settings returns when there is no settings.json
EmptySettings == Settings(NoStatusLine, FALSE, [k \in HookKeys |-> NoEntry])

merge_settings(existing, ccr_config) ==
    LET hooks == IF existing.has_hooks THEN existing.hooks
                 ELSE [k \in HookKeys |-> NoEntry]
        merge(event_type) ==
            IF ~hooks[event_type].has
            THEN Entry(ccr_config.hooks[event_type])
            ELSE LET existing_event == hooks[event_type].list
                     ccr_hooks == ccr_config.hooks[event_type][1].hooks
                 IN  IF existing_event # << >>
                     THEN LET target_matcher == existing_event[1]
                              target_hooks == IF target_matcher.has_hooks
                                              THEN target_matcher.hooks
                                              ELSE << >>
                          IN  Entry([existing_event EXCEPT
                                  ![1] = Matcher(target_matcher.matcher,
                                                 target_hooks \o ccr_hooks)])
                     ELSE hooks[event_type]
    IN  Settings(ccr_config.statusLine, TRUE,
                 [k \in HookKeys |->
                     IF k \in DOMAIN ccr_config.hooks THEN merge(k) ELSE hooks[k]])

\* merged = existing.copy() is a shallow copy: when existing has 'hooks',
\* merged['hooks'] is the same dict, so existing has the merged hooks too.
existing_after_merge(existing, merged) ==
    IF existing.has_hooks THEN [existing EXCEPT !.hooks = merged.hooks] ELSE existing

\* what settings['hooks'][event_type] of a target repository is before a run
ExistingEntries ==
    {NoEntry,
     Entry(<< >>),
     Entry(<<BareMatcher("Bash")>>),
     Entry(<<Matcher("", <<Hook("echo a")>>)>>),
     Entry(<<Matcher("Bash", <<Hook("echo a"), Hook("echo b")>>),
             Matcher("Edit", <<Hook("echo c")>>)>>)}

\* the settings.json of the target repository before the first run: none,
\* one that is not JSON, or a document
SettingsFiles ==
    {[kind |-> "missing", doc |-> EmptySettings],
     [kind |-> "invalid", doc |-> EmptySettings],
     [kind |-> "json", doc |-> Settings(StatusLine("my_status.sh"), FALSE,
                                        [k \in HookKeys |-> NoEntry])]}
      \cup {[kind |-> "json",
             doc |-> Settings(NoStatusLine, TRUE,
                        [k \in HookKeys |->
                            IF k = "PreToolUse" THEN pre
                            ELSE IF k = "Stop" THEN stop
                            ELSE IF k = "Custom" THEN Entry(<<Matcher("", <<Hook("echo z")>>)>>)
                            ELSE NoEntry])] :
            pre \in ExistingEntries, stop \in ExistingEntries}

SourceApps == {"my-app"}
BackendUrls == {DefaultBackendUrl, "http://radar:9000/events"}

\* no run of the installer
NoInstall == [pc |-> "none"]
\* the locals of main before their assignments
NoConfig == [hooks |-> << >>, statusLine |-> NoStatusLine]

backend == <<events, sqlite_sequence, sse_clients, queues, gen, yielded, handler,
             responses, result, view>>

\* main starts (again) on the target repository, with the same arguments
main ==
    /\ install.pc = "written"
    /\ install.run < MaxRuns
    /\ install' = [install EXCEPT !.pc = "start", !.run = @ + 1]
    /\ UNCHANGED backend

\* existing_settings = load_settings(target_path)
load_settings ==
    /\ install.pc = "start"
    /\ install.file.kind # "invalid"
    /\ LET doc == IF install.file.kind = "missing" THEN EmptySettings
                  ELSE install.file.doc
       IN  install' = [install EXCEPT !.pc = "loaded", !.existing_settings = doc,
                                      !.before = doc]
    /\ UNCHANGED backend

\* settings.json is not JSON: load_settings exits with status 3
load_settings_exits ==
    /\ install.pc = "start"
    /\ install.file.kind = "invalid"
    /\ install' = [install EXCEPT !.pc = "exit3"]
    /\ UNCHANGED backend

\* ccr_config = build_ccr_hooks_config(args.source_app, args.backend_url)
main_build ==
    /\ install.pc = "loaded"
    /\ install' = [install EXCEPT
           !.pc = "built",
           !.ccr_config = build_ccr_hooks_config(install.source_app, install.backend_url)]
    /\ UNCHANGED backend

\* merged_settings = merge_settings(existing_settings, ccr_config)
main_merge ==
    /\ install.pc = "built"
    /\ LET merged == merge_settings(install.existing_settings, install.ccr_config)
       IN  install' = [install EXCEPT
               !.pc = "merged",
               !.merged_settings = merged,
               !.existing_settings = existing_after_merge(@, merged)]
    /\ UNCHANGED backend

\* write_settings(target_path, merged_settings)
write_settings ==
    /\ install.pc = "merged"
    /\ install' = [install EXCEPT
           !.pc = "written",
           !.file = [kind |-> "json", doc |-> install.merged_settings]]
    /\ UNCHANGED backend

\* ------------------------------------------------------------------ specs
InitBackend ==
    /\ events = << >>
    /\ sqlite_sequence = 0
    /\ sse_clients = << >>
    /\ queues = [c \in Conns |-> << >>]
    /\ gen = [c \in Conns |-> "new"]
    /\ yielded = [c \in Conns |-> << >>]
    /\ handler = Idle
    /\ responses = << >>
    /\ result = NoResult
    /\ view = NoView

Init == InitBackend /\ install = NoInstall

\* the steps of POST /events for the request bodies B
Ingest(B) ==
    \/ \E body \in B : PostInvalid(body)
    \/ \E body \in B : receive_event(body)
    \/ save_event
    \/ save_event_raises
    \/ queue_put
    \/ receive_event_returns

Stream ==
    \/ \E c \in Conns : event_generator(c)
    \/ \E c \in Conns : queue_get(c)
    \/ \E c \in Conns : resume(c)
    \/ \E c \in Conns : cancelled(c)
    \/ \E c \in Conns : closed_at_yield(c)

Query ==
    \E limit \in 0 .. MaxLimit, session_id \in SessionArgs, event_type \in TypeArgs :
        list_events(limit, session_id, event_type)

\* producers and stream subscribers
Next == Ingest(StreamBodies) \/ Stream
Spec == Init /\ [][Next]_vars

\* The event loop runs a coroutine that is ready: a receive_event call that
\* has started goes on to its response.  Subscribers may stall for ever.
\* (The calls of these specifications all succeed; Spec has the failing ones.)
NextLive ==
    \/ \E body \in LiveBodies : receive_event(body)
    \/ save_event
    \/ queue_put
    \/ receive_event_returns
    \/ Stream
FairIngest ==
    /\ Init /\ [][NextLive]_vars
    /\ WF_vars(save_event \/ queue_put \/ receive_event_returns)

\* Also every subscriber that stays connected keeps reading its stream.
FairStream ==
    FairIngest /\ \A c \in Conns : WF_vars(queue_get(c) \/ resume(c))

\* producers whose calls succeed and list-events queries, no subscriber
NextStore ==
    \/ \E body \in Bodies : receive_event(body)
    \/ save_event
    \/ receive_event_returns
    \/ Query
SpecStore == Init /\ [][NextStore]_vars

Views ==
    \/ \E now \in Clock, minutes \in WindowMinutes : active_sessions(now, minutes)
    \/ \E now \in Clock, hours \in WindowHours : get_tool_stats(now, hours)
    \/ tool_statistics_returns

\* producers whose calls succeed and, on worker threads beside them, the
\* aggregate calls
NextViews ==
    \/ \E body \in ViewBodies : receive_event(body)
    \/ save_event
    \/ receive_event_returns
    \/ Views
SpecViews == Init /\ [][NextViews]_vars

\* Every kind of operation side by side: producers (calls that store and
\* calls whose save fails), subscribers that register and disconnect, the
\* list-events query and the two aggregate calls.
NextAll ==
    \/ \E body \in LiveBodies : receive_event(body)
    \/ save_event
    \/ save_event_raises
    \/ queue_put
    \/ receive_event_returns
    \/ \E c \in Conns : event_generator(c)
    \/ \E c \in Conns : cancelled(c)
    \/ list_events(MaxLimit, None, None)
    \/ \E now \in Clock : active_sessions(now, 120)
    \/ \E now \in Clock : get_tool_stats(now, 2)
    \/ tool_statistics_returns
SpecAll == Init /\ [][NextAll]_vars

\* Producers whose bodies differ, so that the field values of a record tell
\* which call it came from, beside subscribers that connect, read a frame and leave.
PublishBodies ==
    {FullBody(PyInt(10)), BareBody(PyInt(20)),
     [FullBody(PyInt(10)) EXCEPT !.session_id = Absent]}

NextPublish ==
    \/ Ingest(PublishBodies)
    \/ \E c \in Conns : event_generator(c)
    \/ \E c \in Conns : queue_get(c)
    \/ \E c \in Conns : cancelled(c)
SpecPublish == Init /\ [][NextPublish]_vars

\* the installer, run on a target repository once or again
InitInstall ==
    /\ InitBackend
    /\ \E file \in SettingsFiles, source_app \in SourceApps, backend_url \in BackendUrls :
          install = [pc |-> "start", run |-> 1, file |-> file,
                     source_app |-> source_app, backend_url |-> backend_url,
                     existing_settings |-> EmptySettings, before |-> EmptySettings,
                     ccr_config |-> NoConfig, merged_settings |-> EmptySettings]
NextInstall ==
    \/ main
    \/ load_settings
    \/ load_settings_exits
    \/ main_build
    \/ main_merge
    \/ write_settings
SpecInstall == InitInstall /\ [][NextInstall]_vars

\* ------------------------------------------------------------------ claims
\* the 200 responses, in the order sent
Accepted == SelectSeq(responses, LAMBDA r : r.status = 200)
\* the elements of a sequence
Range(seq) == {seq[i] : i \in 1 .. Len(seq)}
\* the ids of a sequence of rows or of event_data
Ids(seq) == [i \in 1 .. Len(seq) |-> seq[i].id.n]
\* what a connection has been sent and what still waits in its queue
Feed(c) == yielded[c] \o queues[c]
\* the connections whose generator is running
Open(c) == gen[c] \in {"get", "yield"}

\* C1: the ids returned to the producers of the N accepted events are exactly
\* 1..N, no id twice and none skipped, and every accepted call has added
\* exactly one row (a call still in its fan-out has added its row already).
C1_IdsAreOneToN ==
    LET acc == Accepted
    IN  /\ {acc[i].event_id : i \in 1 .. Len(acc)} = 1 .. Len(acc)
        /\ \A i, j \in 1 .. Len(acc) : i # j => acc[i].event_id # acc[j].event_id
        /\ Len(events) = Len(acc) + (IF handler.pc = "broadcast" THEN 1 ELSE 0)
        /\ \A i, j \in 1 .. Len(events) : i # j => events[i].id # events[j].id
        /\ \A i \in 1 .. Len(acc) :
              \E k \in 1 .. Len(events) :
                  events[k] = Row(acc[i].event_id, acc[i].event)

\* two accepted calls with a failed one between them, the second
\* accepted call answered with id 2
C1_Witness ==
    /\ Len(responses) = 3
    /\ responses[1].status = 200
    /\ responses[2].status # 200
    /\ responses[3].status = 200
    /\ responses[3].event_id = 2

\* C2: every event_data that is in a subscriber's queue, or that a
\* subscriber has been sent, is a committed row of the table, with the same
\* id and fields: the broadcast never precedes the write, so a query that
\* starts after a subscriber saw the event reads a table that holds it.
C2_BroadcastAfterCommit ==
    \A c \in Conns :
        \A item \in Range(queues[c]) \cup Range(yielded[c]) :
            \E k \in 1 .. Len(events) : events[k] = Row(item.id.n, item)

\* one subscriber has been sent an event that is still in another's queue
C2_Witness ==
    \E c, d \in Conns :
        /\ c # d
        /\ yielded[c] # << >>
        /\ yielded[c][1] \in Range(queues[d])

\* C3: what one subscriber is sent, and what waits in its queue behind that,
\* is in the order of the ids: a smaller id comes before a larger one.
C3_StreamInIdOrder ==
    \A c \in Conns :
        LET ids == Ids(Feed(c))
        IN  \A a, b \in 1 .. Len(ids) : a < b => ids[a] < ids[b]

\* a subscriber has been sent two events and a third waits in its queue
C3_Witness ==
    \E c \in Conns : Len(yielded[c]) = 2 /\ Len(queues[c]) = 1

\* C5: the queue of a subscriber that registers is empty, whatever the table
\* holds, and the only item that ever enters a queue is the event of the
\* receive_event call whose fan-out is running, the newest row: an event
\* whose fan-out is over never enters a queue again.
C5_NoReplay ==
    [][\A c \in Conns :
          /\ (gen[c] = "new" /\ gen'[c] # "new")
                => (queues'[c] = << >> /\ yielded'[c] = << >>)
          /\ Len(Feed(c)') > Len(Feed(c))
                => /\ handler.pc = "broadcast"
                   /\ handler.event_id = sqlite_sequence
                   /\ Feed(c)' = Append(Feed(c), EventData(handler.event, handler.event_id))]_vars

\* a subscriber that registered after two events were stored and fanned out
\* has an empty queue and has been sent nothing
C5_Witness ==
    \E c \in Conns :
        /\ gen[c] = "get"
        /\ Feed(c) = << >>
        /\ Len(Accepted) >= 2
        /\ handler.pc = "idle"

\* C8: when save_event raises, the call is answered with an error, no
\* queue receives anything, and the table has no row for the call.
C8_FailedSaveLeavesNothing ==
    [][(handler.pc = "save" /\ handler'.pc = "idle")
          => /\ Len(responses') = Len(responses) + 1
             /\ SubSeq(responses', 1, Len(responses)) = responses
             /\ responses'[Len(responses')].status = 500
             /\ events' = events
             /\ queues' = queues
             /\ yielded' = yielded]_vars

\* a failed call has been answered while a subscriber is registered, and
\* the table holds the rows of the accepted calls only
C8_Witness ==
    /\ responses # << >>
    /\ responses[Len(responses)].status = 500
    /\ sse_clients # << >>
    /\ Len(events) = Len(Accepted)
    /\ Len(events) >= 1

\* C4: a subscriber that is registered when an event is stored, and stays
\* connected and keeps reading, is eventually sent that event; and what it
\* is sent, with what waits in its queue, has no gap in the ids.  In four
\* parts: when the call of an event returns, the event is in the feed (sent
\* or waiting) of every subscriber that is registered and connected; a
\* connected subscriber's feed only grows at its end; an event does not
\* wait for ever in the queue of a connected subscriber; the ids of a feed
\* are consecutive.
C4_RegisteredSubscriberReceives ==
    /\ [][(handler.pc = "broadcast" /\ handler'.pc = "idle")
             => \A c \in Range(sse_clients) :
                   Open(c) => handler.event_id \in Range(Ids(Feed(c)))]_vars
    /\ [][\A c \in Conns :
             (Open(c) /\ Open(c)')
                => /\ Len(Feed(c)') >= Len(Feed(c))
                   /\ SubSeq(Feed(c)', 1, Len(Feed(c))) = Feed(c)
                   /\ Len(yielded[c]') >= Len(yielded[c])]_vars
    /\ \A k \in 1 .. MaxCalls :
          (\E c \in Conns : Open(c) /\ k \in Range(Ids(queues[c])))
              ~> (\A c \in Conns : Open(c) => k \notin Range(Ids(queues[c])))
    /\ [](\A c \in Conns : \A a \in 1 .. Len(Feed(c)) - 1 :
             Ids(Feed(c))[a + 1] = Ids(Feed(c))[a] + 1)

\* a subscriber that registered after the first event has been sent the
\* second and the third
C4_Witness ==
    \E c \in Conns : Open(c) /\ Ids(yielded[c]) = <<2, 3>>

\* C10: a receive_event call that has stored its event returns its id
\* whether or not any subscriber ever reads its queue, and when it returns
\* every registered queue has the event as its newest item.
C10_StalledSubscriberNeverBlocks ==
    /\ \A k \in 1 .. MaxCalls :
          (handler.pc = "broadcast" /\ handler.event_id = k)
              ~> (\E i \in 1 .. Len(responses) :
                     responses[i].status = 200 /\ responses[i].event_id = k)
    /\ [][(handler.pc = "broadcast" /\ handler'.pc = "idle")
             => \A i \in 1 .. Len(sse_clients) :
                   /\ queues[sse_clients[i]] # << >>
                   /\ queues[sse_clients[i]][Len(queues[sse_clients[i]])]
                         = EventData(handler.event, handler.event_id)]_vars

\* one subscriber has read nothing while three events were published, all
\* three calls have returned, and another subscriber has been sent the events
C10_Witness ==
    \E c, d \in Conns :
        /\ c # d
        /\ Open(c) /\ yielded[c] = << >> /\ Len(queues[c]) = 3
        /\ Len(Accepted) = 3
        /\ Len(yielded[d]) >= 2

\* the events submitted by the calls that have stored a row: those answered
\* 200 and the one whose fan-out is running
Submitted ==
    {[event_id |-> Accepted[i].event_id, event |-> Accepted[i].event] :
        i \in 1 .. Len(Accepted)}
      \cup (IF handler.pc = "broadcast"
            THEN {[event_id |-> handler.event_id, event |-> handler.event]}
            ELSE {})

\* C6: the list-events query returns its records by id descending, the most
\* recent id first, also when the timestamps are not in the order of the ids.
C6_ListEventsByIdDescending ==
    result.called =>
        \A a, b \in 1 .. Len(result.events) :
            a < b => Ids(result.events)[a] > Ids(result.events)[b]

\* C7: every record that get_events returns equals, in every field but the
\* id, the event that was submitted by the call that was given that id.
C7_RoundTrip ==
    result.called =>
        \A i \in 1 .. Len(result.events) :
            \E sub \in Submitted :
                /\ sub.event_id = result.events[i].id.n
                /\ \A f \in Fields : result.events[i][f] = sub.event[f]

\* C9: a request body with timestamp, session_id or hook_event_type missing
\* or of another type than declared is answered with an error, and the
\* table, the queues and the handler are as they were.
C9_IllTypedRejected ==
    [][\A body \in IllTypedBodies :
          (PostInvalid(body) \/ receive_event(body))
             => /\ Len(responses') = Len(responses) + 1
                /\ SubSeq(responses', 1, Len(responses)) = responses
                /\ responses'[Len(responses')].status = 422
                /\ handler' = handler
                /\ events' = events
                /\ queues' = queues]_vars

\* C11: the queue of a subscriber holds no more than a fixed capacity of
\* undelivered events; the capacity is a constant of the Hub, so it is below
\* the number of events that producers publish while a subscriber is stalled.
C11_QueueBounded ==
    \A c \in Conns : Len(queues[c]) < MaxCalls

\* C12: a connection that has ended is not in sse_clients, so no event that
\* is published afterwards is put in its queue.
C12_EndedConnectionDeregistered ==
    \A c \in Conns : gen[c] = "closed" => c \notin Range(sse_clients)

\* the first n rows of the table: the log as it stood after n appends
Prefix(n) == SubSeq(events, 1, n)
\* the aggregate call that has been answered
Answered(op) == view.op = op /\ view.pc = "done"

\* C13: the result of an aggregate call is the result over one state of the
\* log, one prefix of the rows in id order: the two parts of a tool-statistics
\* result are those of the same prefix, and so are the rows of an
\* active-sessions result.
C13_ViewsReadOneSnapshot ==
    /\ Answered("stats") =>
          \E n \in 0 .. Len(events) :
              /\ view.tool_usage
                    \in select_tool_usage(Prefix(n), cutoff_hours(view.now, view.window))
              /\ view.success_failure
                    = select_success_failure(Prefix(n), cutoff_hours(view.now, view.window))
    /\ Answered("sessions") =>
          \E n \in 0 .. Len(events) :
              view.sessions \in get_active_sessions(Prefix(n), view.now, view.window)

\* the rows of a session in the table an answered call read
SessionRows(sid) == SelectSeq(Prefix(view.n1), LAMBDA r : r.session_id = sid)

\* C14: the model_name of a row of the active-sessions view is the
\* model_name of the session's record with the largest id, whatever the
\* timestamps of the session's records are.
C14_ModelNameOfLargestId ==
    Answered("sessions") =>
        \A k \in 1 .. Len(view.sessions) :
            LET rows == SessionRows(view.sessions[k].session_id)
            IN  view.sessions[k].model_name = rows[Len(rows)].model_name

\* the records of `table` stamped within the trailing window that ends at
\* `now` and is `length` milliseconds long
InWindow(table, now, length) ==
    SelectSeq(table, LAMBDA r : now - length < r.timestamp.n /\ r.timestamp.n <= now)

\* C15: the active-sessions view for W minutes has one row for each session
\* that has a record stamped within the last W minutes and no other row; a
\* row reports the largest in-window timestamp of its session and the number
\* of its in-window records; the rows are by last activity descending.
C15_ActiveSessionsInWindow ==
    Answered("sessions") =>
        LET rows == InWindow(Prefix(view.n1), view.now, view.window * 60 * 1000)
            sids == {rows[i].session_id : i \in 1 .. Len(rows)}
            n == Len(view.sessions)
        IN  /\ {view.sessions[k].session_id : k \in 1 .. n} = sids
            /\ n = Cardinality(sids)
            /\ view.count = n
            /\ \A k \in 1 .. n :
                  LET group == SelectSeq(rows, LAMBDA r :
                                   r.session_id = view.sessions[k].session_id)
                  IN  /\ view.sessions[k].last_activity = SqlMax(group)
                      /\ view.sessions[k].event_count = PyInt(Len(group))
            /\ \A k \in 1 .. n - 1 :
                  view.sessions[k].last_activity.n >= view.sessions[k + 1].last_activity.n

\* the number of records of a sequence with the given event type
OfType(rows, type) == Len(SelectSeq(rows, LAMBDA r : r.hook_event_type = PyStr(type)))
\* the count a success_failure result reports under a status (none: 0)
Reported(dict, st) == IF PyStr(st) \in DOMAIN dict THEN dict[PyStr(st)].n ELSE 0

\* C16: the tool-statistics view reports under `failure` the number of
\* in-window records of type PostToolUseFailure and under `success` the
\* number of in-window records of type PostToolUse; records of other types
\* are in neither bucket, and there is no other bucket.
C16_SuccessFailureBuckets ==
    Answered("stats") =>
        LET rows == InWindow(Prefix(view.n2), view.now, view.window * 3600 * 1000)
        IN  /\ Reported(view.success_failure, "failure") = OfType(rows, "PostToolUseFailure")
            /\ Reported(view.success_failure, "success") = OfType(rows, "PostToolUse")
            /\ DOMAIN view.success_failure \subseteq {PyStr("success"), PyStr("failure")}
            /\ \A st \in DOMAIN view.success_failure : view.success_failure[st].n > 0

\* C17: the tool_usage part of the tool-statistics view has one entry for
\* each tool_name that an in-window record carries and no other entry, an
\* entry counts the in-window records with its tool_name, of any event type,
\* records without a tool_name are not counted, and the entries are by count
\* descending.
C17_ToolUsageCounts ==
    Answered("stats") =>
        LET rows == InWindow(Prefix(view.n1), view.now, view.window * 3600 * 1000)
            tools == {rows[i].tool_name : i \in 1 .. Len(rows)} \ {None}
            n == Len(view.tool_usage)
        IN  /\ {view.tool_usage[k].tool_name : k \in 1 .. n} = tools
            /\ n = Cardinality(tools)
            /\ \A k \in 1 .. n :
                  view.tool_usage[k].count.n
                      = Len(SelectSeq(rows, LAMBDA r :
                                r.tool_name = view.tool_usage[k].tool_name))
            /\ \A k \in 1 .. n - 1 :
                  view.tool_usage[k].count.n >= view.tool_usage[k + 1].count.n

\* does a record satisfy the filters that a list-events call supplied?
Satisfies(row, session_id, event_type) ==
    /\ session_id # None => row.session_id = session_id
    /\ event_type # None => row.hook_event_type = event_type

\* C18: a list-events result holds only records that equal every supplied
\* filter (every record when none is supplied), each at most once; it holds
\* min(limit, m) of the m matching records, the first ones of the result
\* without a limit, and the reported count is the number of records returned.
C18_ListEventsFilterAndLimit ==
    result.called =>
        LET matching == SelectSeq(events, LAMBDA row :
                            Satisfies(row, result.session_id, result.event_type))
            m == Len(matching)
            n == Len(result.events)
        IN  /\ \A i \in 1 .. n :
                  /\ Satisfies(result.events[i], result.session_id, result.event_type)
                  /\ result.events[i].id \in Range([k \in 1 .. m |-> matching[k].id])
            /\ \A i, j \in 1 .. n : i # j => result.events[i].id # result.events[j].id
            /\ n <= result.limit
            /\ n = (IF result.limit < m THEN result.limit ELSE m)
            /\ \E all \in get_events(Len(events), result.session_id, result.event_type) :
                  result.events = SubSeq(all, 1, n)
            /\ result.count = n

\* C19: an aggregate call that reads the empty table is answered, and with
\* empty collections: active sessions with the empty list, tool statistics
\* with an empty tool_usage and an empty success_failure.
C19_EmptyStoreEmptyViews ==
    /\ (Answered("sessions") /\ view.n1 = 0)
          => /\ view.sessions = << >>
             /\ view.count = 0
    /\ (Answered("stats") /\ view.n2 = 0)
          => /\ view.tool_usage = << >>
             /\ DOMAIN view.success_failure = {}
    /\ (view.pc = "select2" /\ events = << >>) => ENABLED tool_statistics_returns
    /\ (view.pc # "select2" /\ events = << >>) =>
          \A now \in Clock :
              /\ \A minutes \in WindowMinutes : ENABLED active_sessions(now, minutes)
              /\ \A hours \in WindowHours : ENABLED get_tool_stats(now, hours)

\* a tool-statistics call has run both its statements on the empty table
\* and has been answered
C19_Witness ==
    /\ Answered("stats")
    /\ view.n2 = 0
    /\ events = << >>

\* C20: a subscriber whose delivery has failed (its connection broke while
\* a frame was being sent) does not disturb the fan-out: a call that has
\* committed its record ends only with the 200 response that carries its id,
\* and at that moment every other subscriber of sse_clients that is connected
\* has the event as the newest item of its queue.
C20_DeliveryFailureIsolated ==
    [][(handler.pc = "broadcast" /\ handler'.pc # "broadcast")
          => /\ responses' = Append(responses, [status |-> 200,
                                                event_id |-> handler.event_id,
                                                event |-> handler.event])
             /\ events[Len(events)] = Row(handler.event_id, handler.event)
             /\ \A c \in Range(sse_clients) :
                   Open(c) => /\ queues[c] # << >>
                              /\ queues[c][Len(queues[c])]
                                    = EventData(handler.event, handler.event_id)]_vars

\* the fan-out of a call has passed the queue of a subscriber whose
\* connection broke and has put the event in the queue of the connected
\* subscriber behind it
C20_Witness ==
    /\ handler.pc = "broadcast"
    /\ handler.i > Len(sse_clients)
    /\ \E c, d \in Conns :
          /\ sse_clients = <<c, d>>
          /\ gen[c] = "closed"
          /\ Open(d)
          /\ queues[d] # << >>
          /\ queues[d][Len(queues[d])] = EventData(handler.event, handler.event_id)

\* C21: the table only grows at its end: every step leaves the rows that
\* are stored as they are, ids and fields, so the log of a later state
\* extends the log of every earlier one; and a step of the list-events query
\* or of an aggregate call changes neither the table nor sse_clients nor a
\* queue.
C21_AppendOnly ==
    [][/\ Len(events') >= Len(events)
       /\ SubSeq(events', 1, Len(events)) = events
       /\ ((result'.called /\ ~result.called) \/ view' # view)
             => /\ events' = events
                /\ sqlite_sequence' = sqlite_sequence
                /\ sse_clients' = sse_clients
                /\ queues' = queues]_vars

\* after a second event was stored: a subscriber has disconnected, another
\* holds the events in its queue, a save has failed, and a tool-statistics
\* call has been answered whose second statement read a longer table than
\* its first
C21_Witness ==
    /\ Len(events) >= 2
    /\ \E i \in 1 .. Len(responses) : responses[i].status = 500
    /\ \E c, d \in Conns : gen[c] = "closed" /\ gen[d] = "get" /\ Len(queues[d]) >= 2
    /\ Answered("stats")
    /\ view.n1 < view.n2

\* C22: every stored record has a session_id and an event type that are
\* strings and not empty: a call whose session_id or event type is the empty
\* string stores nothing.
C22_RequiredFieldsNonEmpty ==
    \A i \in 1 .. Len(events) :
        /\ events[i].session_id.t = "str" /\ events[i].session_id.s # ""
        /\ events[i].hook_event_type.t = "str" /\ events[i].hook_event_type.s # ""

\* the records of `table` that are not stamped later than `now`
NotAfter(table, now) == SelectSeq(table, LAMBDA r : r.timestamp.n <= now)

\* C23: the window of an aggregate call ends at the time of the call, so a
\* record stamped later than that is counted nowhere: no session's last
\* activity is later than the call, and no count of either view exceeds the
\* number of its records that are stamped up to the time of the call.
C23_WindowEndsNow ==
    /\ Answered("sessions") =>
          LET rows == NotAfter(Prefix(view.n1), view.now)
          IN  \A k \in 1 .. Len(view.sessions) :
                  /\ view.sessions[k].last_activity.n <= view.now
                  /\ view.sessions[k].event_count.n
                        <= Len(SelectSeq(rows, LAMBDA r :
                               r.session_id = view.sessions[k].session_id))
    /\ Answered("stats") =>
          /\ \A k \in 1 .. Len(view.tool_usage) :
                view.tool_usage[k].count.n
                    <= Len(SelectSeq(NotAfter(Prefix(view.n1), view.now), LAMBDA r :
                           r.tool_name = view.tool_usage[k].tool_name))
          /\ Reported(view.success_failure, "failure")
                <= OfType(NotAfter(Prefix(view.n2), view.now), "PostToolUseFailure")
          /\ Reported(view.success_failure, "success")
                <= OfType(NotAfter(Prefix(view.n2), view.now), "PostToolUse")

\* C24: for every successful ingest call, the id returned to the producer,
\* the id of the record published to the subscribers for that call and the
\* id of the stored record that holds the call's field values are the same
\* id: the row with the returned id is the row of the call's event, and
\* every published record carries the id and the fields of one call whose
\* row is stored under that id.
C24_OneIdPerCall ==
    /\ \A s \in Submitted :
          /\ \E k \in 1 .. Len(events) : events[k] = Row(s.event_id, s.event)
          /\ \A k \in 1 .. Len(events) :
                events[k].id = PyInt(s.event_id) => events[k] = Row(s.event_id, s.event)
    /\ \A c \in Conns : \A k \in 1 .. Len(Feed(c)) :
          \E s \in Submitted :
              /\ Feed(c)[k].id = PyInt(s.event_id)
              /\ \A f \in Fields : Feed(c)[k][f] = s.event[f]
    /\ \A s, t \in Submitted : s.event_id = t.event_id => s = t

C24_Witness ==
    /\ Len(Accepted) = 3
    /\ Accepted[1].event # Accepted[2].event
    /\ Accepted[2].event # Accepted[3].event
    /\ \E c \in Conns : Len(yielded[c]) >= 1 /\ Len(Feed(c)) = 3

\* how many items of a queue carry the id
Copies(q, id) == Cardinality({k \in 1 .. Len(q) : q[k].id = PyInt(id)})

\* C25: the fan-out of an event puts it exactly once in the queue of each
\* subscriber that is registered, in the order of sse_clients and skipping
\* none: while the loop runs, the queues before its position hold the event
\* once and the others do not hold it; one turn of the loop puts into the
\* queue at its position alone and moves on by one; sse_clients does not
\* change under the loop and lists no queue twice.  So no subscriber gets an
\* id twice, and the ids it gets grow from one item to the next.
C25_FanOutExactlyOnce ==
    /\ [](handler.pc = "broadcast"
            => \A j \in 1 .. Len(sse_clients) :
                  Copies(queues[sse_clients[j]], handler.event_id)
                      = (IF j < handler.i THEN 1 ELSE 0))
    /\ [](\A a, b \in 1 .. Len(sse_clients) :
             sse_clients[a] = sse_clients[b] => a = b)
    /\ [](\A c \in Conns :
             /\ Cardinality(Range(Ids(Feed(c)))) = Len(Feed(c))
             /\ \A k \in 1 .. Len(Feed(c)) - 1 :
                   Feed(c)[k].id.n < Feed(c)[k + 1].id.n)
    /\ [][handler.pc = "broadcast"
             => /\ sse_clients' = sse_clients
                /\ handler'.pc = "broadcast"
                     => /\ handler'.i = handler.i + 1
                        /\ \A c \in Conns :
                              queues'[c] # queues[c] => c = sse_clients[handler.i]]_vars

\* the fan-out of the third event stands between two subscribers: the first,
\* registered before the second event, has it; the second, registered after,
\* does not have it yet
C25_Witness ==
    /\ handler.pc = "broadcast"
    /\ handler.event_id = 3
    /\ handler.i = 2
    /\ Len(sse_clients) = 2
    /\ Len(Feed(sse_clients[1])) = 2
    /\ Len(Feed(sse_clients[2])) = 0
    /\ yielded[sse_clients[1]] # << >>

\* the hook entries of settings['hooks'][event_type], matcher group after
\* matcher group
RECURSIVE HookEntries(_)
HookEntries(list) ==
    IF list = << >> THEN << >>
    ELSE (IF Head(list).has_hooks THEN Head(list).hooks ELSE << >>)
             \o HookEntries(Tail(list))
HooksFor(settings, event_type) ==
    IF settings.has_hooks /\ settings.hooks[event_type].has
    THEN HookEntries(settings.hooks[event_type].list)
    ELSE << >>
\* the items of a are in b, in the order they have in a
RECURSIVE InOrderIn(_, _)
InOrderIn(a, b) ==
    IF a = << >> THEN TRUE
    ELSE IF b = << >> THEN FALSE
    ELSE IF Head(a) = Head(b) THEN InOrderIn(Tail(a), Tail(b))
    ELSE InOrderIn(a, Tail(b))

\* C26: after merge_settings(existing, ccr_config), for every event type of
\* the CCR configuration, the merged hooks of the event type contain the CCR
\* hook command and the CCR send_event command, and the hook entries that
\* were there before the merge are still there, in their order; also when
\* the existing entry of the event type is an empty list.
C26_MergeAddsCcrHooks ==
    install.pc = "merged" =>
        \A event_type \in EventTypes :
            LET merged == HooksFor(install.merged_settings, event_type)
            IN  /\ Hook(hook_cmd(event_type)) \in Range(merged)
                /\ Hook(send_event_cmd(event_type, install.source_app,
                                       install.backend_url)) \in Range(merged)
                /\ InOrderIn(HooksFor(install.before, event_type), merged)
====
